---- MODULE Spec2Model ----
(***************************************************************************)
(* State-machine model of the Meta Ads -> BigQuery ingestion job.          *)
(*                                                                         *)
(*   src/main.py                    the full pipeline (variant "main")     *)
(*   src/meta_ads_cloudrun/main.py  the fetch-only job (variant "cloudrun")*)
(*                                                                         *)
(* Python values of unpredictable type are tagged records of one shape,    *)
(* [t, s, n]; Python strings are sequences of one-character strings, so    *)
(* that len(s), s[4] and the parsers act on them as the code does.         *)
(***************************************************************************)
EXTENDS Integers, Sequences, FiniteSets, TLC

VARIABLES
    variant,      \* which entry point runs: "main" or "cloudrun"
    env,          \* the process environment: name -> None | str
    today,        \* date.today() of the run
    utcnow,       \* datetime.now(timezone.utc) when main() reads it
    chain,        \* the upstream's cursor chain: "finite" or "endless"
    peer,         \* a second run of the job, suspended: its own state
    pc,           \* position of main()
    raised,       \* the exception that ended the run, ExcNone while none
    window,       \* (since, until) as returned by the window computation
    url,          \* fetch loop: the URL of the next GET
    next_params,  \* fetch loop: the params of the next GET
    rows,         \* fetch loop: the accumulated raw records
    requests,     \* every GET issued so far, in order
    pages,        \* every response received so far, in order
    log,          \* everything printed so far, in order
    load_ts,      \* the ingestion instant captured by main()
    bq_rows,      \* the normalized rows
    i,            \* insert loop: offset of the next chunk
    total,        \* insert loop: rows counted as inserted
    ret,          \* what insert_into_bigquery returned to main()
    calls,        \* every insert_rows_json call issued so far, in order
    sink          \* the rows held by the destination table

vars == <<variant, env, today, utcnow, chain, peer, pc, raised, window, url, next_params,
          rows, requests, pages, log, load_ts, bq_rows, i, total, ret, calls,
          sink>>

-----------------------------------------------------------------------------
(* Python values *)

NoneV == [t |-> "none", s |-> <<>>, n |-> 0]
StrV(s) == [t |-> "str", s |-> s, n |-> 0]
IntV(n) == [t |-> "int", s |-> <<>>, n |-> n]

\* A float, kept as an exact decimal: sign, integer part, fraction digits
\* without trailing zeros (binary rounding is not modelled).
FloatV(neg, ip, frac) == [t |-> "float", neg |-> neg, ip |-> ip, frac |-> frac]

\* The empty list, standing for the values that are no scalar.
ListV == [t |-> "list", s |-> <<>>, n |-> 0]

\* Python truthiness of None / str / int, as in `if not v`.
Truthy(v) ==
    CASE v.t = "none" -> FALSE
      [] v.t = "str" -> v.s # <<>>
      [] v.t = "int" -> v.n # 0
      [] v.t = "float" -> v.ip # 0 \/ v.frac # <<>>
      [] OTHER -> FALSE

Min(a, b) == IF a <= b THEN a ELSE b

-----------------------------------------------------------------------------
(* Characters and strings *)

DigitChars == <<"0", "1", "2", "3", "4", "5", "6", "7", "8", "9">>

Digit(n) == DigitChars[n + 1]

IsDigit(c) == \E d \in 0..9 : DigitChars[d + 1] = c

DigitVal(c) == CHOOSE d \in 0..9 : DigitChars[d + 1] = c

\* The characters the modelled strings are written in, in code-point order.
Alphabet == <<"+", "-", ".", "/", "0", "1", "2", "3", "4", "5", "6", "7", "8",
              "9", "T", "a", "b", "c">>

Ord(c) == CHOOSE k \in 1..Len(Alphabet) : Alphabet[k] = c

\* Python's s <= t on strings: lexicographic by code point.
RECURSIVE StrLeq(_, _)
StrLeq(s, t) ==
    IF s = <<>> THEN TRUE
    ELSE IF t = <<>> THEN FALSE
    ELSE IF Head(s) # Head(t) THEN Ord(Head(s)) < Ord(Head(t))
    ELSE StrLeq(Tail(s), Tail(t))

\* The value of a run of decimal digits.
RECURSIVE DigitsValue(_, _)
DigitsValue(s, acc) ==
    IF s = <<>> THEN acc
    ELSE DigitsValue(Tail(s), 10 * acc + DigitVal(Head(s)))

AllDigits(s) == s # <<>> /\ \A k \in 1..Len(s) : IsDigit(s[k])

\* int(s) on a str: an optional sign and decimal digits; anything else is
\* a ValueError (whitespace and underscores never occur in the modelled
\* inputs).
int_of_str(s) ==
    LET signed == s # <<>> /\ Head(s) \in {"+", "-"}
        body == IF signed THEN Tail(s) ELSE s
    IN  IF AllDigits(body)
        THEN [ok |-> TRUE,
              n |-> IF signed /\ Head(s) = "-"
                    THEN 0 - DigitsValue(body, 0)
                    ELSE DigitsValue(body, 0)]
        ELSE [ok |-> FALSE, n |-> 0]

-----------------------------------------------------------------------------
(* datetime.date *)

IsLeap(y) == (y % 4 = 0 /\ y % 100 # 0) \/ y % 400 = 0

DaysInMonth(y, m) ==
    IF m = 2 THEN (IF IsLeap(y) THEN 29 ELSE 28)
    ELSE IF m \in {4, 6, 9, 11} THEN 30
    ELSE 31

PrevDay(d) ==
    IF d.d > 1 THEN [d EXCEPT !.d = d.d - 1]
    ELSE IF d.m > 1 THEN [y |-> d.y, m |-> d.m - 1, d |-> DaysInMonth(d.y, d.m - 1)]
    ELSE [y |-> d.y - 1, m |-> 12, d |-> 31]

NextDay(d) ==
    IF d.d < DaysInMonth(d.y, d.m) THEN [d EXCEPT !.d = d.d + 1]
    ELSE IF d.m < 12 THEN [y |-> d.y, m |-> d.m + 1, d |-> 1]
    ELSE [y |-> d.y + 1, m |-> 1, d |-> 1]

\* d - timedelta(days=n), n of either sign.
RECURSIVE MinusDays(_, _)
MinusDays(d, n) ==
    IF n = 0 THEN d
    ELSE IF n > 0 THEN MinusDays(PrevDay(d), n - 1)
    ELSE MinusDays(NextDay(d), n + 1)

\* date.isoformat(): YYYY-MM-DD, zero padded.
isoformat(d) ==
    <<Digit(d.y \div 1000), Digit((d.y \div 100) % 10), Digit((d.y \div 10) % 10),
      Digit(d.y % 10), "-", Digit(d.m \div 10), Digit(d.m % 10), "-",
      Digit(d.d \div 10), Digit(d.d % 10)>>

-----------------------------------------------------------------------------
(* Exceptions and printed lines *)

ExcNone == [type |-> "", arg |-> ""]
Exc(type, arg) == [type |-> type, arg |-> arg]

\* One printed line: the stream, the fixed text, a number and a string
\* interpolated into it (0 and <<>> when the line has none).
Line(stream, msg, n, s) == [stream |-> stream, msg |-> msg, n |-> n, s |-> s]

-----------------------------------------------------------------------------
(* Window computation *)

\* iso_date(s): the position test only. ok = FALSE stands for ValueError.
iso_date(s) ==
    IF Len(s) # 10 \/ s[5] # "-" \/ s[8] # "-"
    THEN [ok |-> FALSE, s |-> s]
    ELSE [ok |-> TRUE, s |-> s]

\* os.getenv(name, default) on the modelled environment.
getenv(e, name, default) == IF e[name].t = "none" THEN default ELSE e[name]

\* Mutant of lookback_window: until is today, not yesterday.
lookback_window_today(e, day) ==
    LET lb == int_of_str(getenv(e, "LOOKBACK_DAYS", StrV(<<"1", "4">>)).s)
    IN  IF ~lb.ok
        THEN [ok |-> FALSE, exc |-> Exc("ValueError", "LOOKBACK_DAYS"),
              since |-> <<>>, until |-> <<>>]
        ELSE [ok |-> TRUE, exc |-> ExcNone,
              since |-> isoformat(MinusDays(day, lb.n)),
              until |-> isoformat(day)]

\* The lookback branch shared by compute_window and the cloudrun main():
\* int(os.getenv("LOOKBACK_DAYS", "14")), then the two date subtractions;
\* both date.today() calls of one run read the same day.
lookback_window(e, day) ==
    LET lb == int_of_str(getenv(e, "LOOKBACK_DAYS", StrV(<<"1", "4">>)).s)
    IN  IF ~lb.ok
        THEN [ok |-> FALSE, exc |-> Exc("ValueError", "LOOKBACK_DAYS"),
              since |-> <<>>, until |-> <<>>]
        ELSE [ok |-> TRUE, exc |-> ExcNone,
              since |-> isoformat(MinusDays(day, lb.n)),
              until |-> isoformat(MinusDays(day, 1))]

\* compute_window(): both overrides truthy -> iso_date of each, since first;
\* otherwise the lookback branch.
compute_window(e, day) ==
    LET since_env == e["META_SINCE"]
        until_env == e["META_UNTIL"]
    IN  IF Truthy(since_env) /\ Truthy(until_env)
        THEN IF ~iso_date(since_env.s).ok
             THEN [ok |-> FALSE, exc |-> Exc("ValueError", "META_SINCE"),
                   since |-> <<>>, until |-> <<>>]
             ELSE IF ~iso_date(until_env.s).ok
             THEN [ok |-> FALSE, exc |-> Exc("ValueError", "META_UNTIL"),
                   since |-> <<>>, until |-> <<>>]
             ELSE [ok |-> TRUE, exc |-> ExcNone,
                   since |-> iso_date(since_env.s).s,
                   until |-> iso_date(until_env.s).s]
        ELSE lookback_window(e, day)

-----------------------------------------------------------------------------
(* Dicts and JSON *)

\* A dict is the sequence of its items, in insertion order.
Item(k, v) == [k |-> k, v |-> v]

HasKey(r, k) == \E j \in 1..Len(r) : r[j].k = k

\* r.get(k): the value, None when the key is absent.
Get(r, k) ==
    IF HasKey(r, k) THEN r[CHOOSE j \in 1..Len(r) : r[j].k = k].v ELSE NoneV

\* str(n) of an int.
RECURSIVE NatToStr(_)
NatToStr(n) == IF n < 10 THEN <<Digit(n)>> ELSE NatToStr(n \div 10) \o <<Digit(n % 10)>>

IntToStr(n) == IF n < 0 THEN <<"-">> \o NatToStr(0 - n) ELSE NatToStr(n)

\* repr(f) of a float: the shortest decimal, with at least one fraction digit.
FloatRepr(f) ==
    (IF f.neg THEN <<"-">> ELSE <<>>) \o NatToStr(f.ip) \o <<".">>
    \o (IF f.frac = <<>> THEN <<"0">> ELSE f.frac)

\* json.dumps of a scalar, as the sequence of the text's pieces.
JsonScalar(v) ==
    CASE v.t = "none" -> <<"null">>
      [] v.t = "str" -> <<"\"">> \o v.s \o <<"\"">>
      [] v.t = "int" -> IntToStr(v.n)
      [] v.t = "float" -> FloatRepr(v)
      [] OTHER -> <<"[]">>

RECURSIVE JsonItems(_)
JsonItems(r) ==
    IF r = <<>> THEN <<>>
    ELSE <<"\"", r[1].k, "\"", ": ">> \o JsonScalar(r[1].v)
         \o (IF Len(r) > 1 THEN <<", ">> ELSE <<>>) \o JsonItems(Tail(r))

\* json.dumps(r) of a flat dict.
json_dumps(r) == <<"{">> \o JsonItems(r) \o <<"}">>

-----------------------------------------------------------------------------
(* The remote API *)

MaxPages == 3

PageSizes == {0, 1, 200, 500}

\* The upstream's j-th record of the queried window.
Raw(j) == <<Item("reach", IntV(j))>>

RawRange(from, size) == [j \in 1..size |-> Raw(from + j)]

RECURSIVE Served(_)
Served(ps) ==
    IF ps = <<>> THEN 0
    ELSE (IF ps[1].status < 400 /\ ps[1].json /\ ps[1].hasData
          THEN Len(ps[1].data) ELSE 0) + Served(Tail(ps))

NextUrl(k) == <<"https://graph.facebook.com/", "next?after=", Digit(k)>>

\* The HTTP statuses answered: success, a client error, a server error.
Statuses == {200, 400, 500}

BodyLens == {120, 6000}

\* A response: the status, the body's length as text, whether the body
\* parses as JSON, and the payload's "data" (hasData = FALSE: no such key)
\* and paging.next (None: no paging or no next).
Response(status, json, blen, hasData, data, next) ==
    [status |-> status, json |-> json, blen |-> blen, hasData |-> hasData,
     data |-> data, next |-> next]

\* An answer in short: a Response with the size of its data in place of
\* the data.
Answer(status, json, blen, hasData, size, next) ==
    [status |-> status, json |-> json, blen |-> blen, hasData |-> hasData,
     size |-> size, next |-> next]

\* What the upstream may answer to the GET that follows the responses ps.
\* Its chain of pages is finite: the page numbered MaxPages carries no next.
\* A last page may also lack "data" or carry an empty next.
Answers(ps) ==
    {Answer(200, TRUE, 120, TRUE, sz, NoneV) : sz \in PageSizes}
    \cup {Answer(200, TRUE, 120, TRUE, sz, StrV(NextUrl(Len(ps) + 1))) :
            sz \in IF Len(ps) + 1 < MaxPages THEN PageSizes ELSE {}}
    \cup {Answer(200, TRUE, 120, FALSE, 0, NoneV),
          Answer(200, TRUE, 120, TRUE, 0, StrV(<<>>)),
          Answer(200, FALSE, 120, FALSE, 0, NoneV)}
    \cup {Answer(st, js, bl, FALSE, 0, NoneV) :
            st \in Statuses \ {200}, js \in BOOLEAN, bl \in BodyLens}

MaxGets == 4

\* What an upstream whose every page carries a next reference may answer to
\* the GET that follows the responses ps: a page with a next reference, or
\* an error. This model follows it for MaxGets requests.
EndlessAnswers(ps) ==
    IF Len(ps) >= MaxGets THEN {}
    ELSE {Answer(200, TRUE, 120, TRUE, sz, StrV(NextUrl(Len(ps) + 1))) :
            sz \in PageSizes}
         \cup {Answer(500, TRUE, 120, FALSE, 0, NoneV)}

\* The answers of an upstream whose cursor chain is of kind ch.
Upstream(ch, ps) == IF ch = "endless" THEN EndlessAnswers(ps) ELSE Answers(ps)

\* The response of answer a after the responses ps: its data are the
\* upstream's next a.size records.
Respond(a, ps) ==
    Response(a.status, a.json, a.blen, a.hasData, RawRange(Served(ps), a.size), a.next)

\* Response.raise_for_status(): HTTPError for 4xx and 5xx.
raise_for_status(r) == 400 <= r.status /\ r.status < 600

DiagLimit == 5000

\* meta_get(url, params): what it prints, and what it raises or returns.
meta_get(r) ==
    LET diag == IF r.status >= 400
                THEN <<Line("stdout", "Meta request failed.", 0, <<>>),
                       Line("stdout", "URL:", 0, <<>>),
                       Line("stdout", "Status:", r.status, <<>>),
                       Line("stdout", IF r.json THEN "Body:" ELSE "Body (text):",
                            Min(r.blen, DiagLimit), <<>>)>>
                ELSE <<>>
    IN  IF r.status >= 400 /\ raise_for_status(r)
        THEN [printed |-> diag, exc |-> Exc("HTTPError", "status")]
        ELSE IF ~r.json
        THEN [printed |-> diag, exc |-> Exc("JSONDecodeError", "body")]
        ELSE [printed |-> diag, exc |-> ExcNone]

\* Mutant of no_next: only an absent next reference ends the loop.
no_next_absent(r) == r.next.t = "none"

\* `if not next_url: break` on payload.get("paging", {}).get("next").
no_next(r) == ~Truthy(r.next)

\* payload.get("data", [])
payload_data(r) == IF r.hasData THEN r.data ELSE <<>>

\* Mutant of rows_extend: the page's records assigned, not appended.
rows_extend_assign(acc, r) == payload_data(r)

\* rows.extend(payload.get("data", []))
rows_extend(acc, r) == acc \o payload_data(r)

FieldsMain == <<"date_start", ",", "date_stop", ",", "account_id", ",",
                "campaign_id", ",", "campaign_name", ",", "objective", ",",
                "reach", ",", "impressions", ",", "spend", ",", "clicks", ",",
                "ctr", ",", "cpc", ",", "cpm">>

FieldsCloudrun == <<"date_start", ",", "date_stop", ",", "account_id", ",",
                    "campaign_id", ",", "campaign_name", ",", "objective", ",",
                    "publisher_platform", ",", "reach", ",", "impressions", ",",
                    "spend", ",", "clicks", ",", "inline_link_clicks", ",",
                    "ctr", ",", "cpc", ",", "cpm">>

PageLimit == 5000

time_range(w) ==
    StrV(json_dumps(<<Item("since", StrV(w[1])), Item("until", StrV(w[2]))>>))

\* The base URL both fetchers build from META_API_VERSION and the account.
base_url(e) ==
    <<"https://graph.facebook.com/">>
    \o getenv(e, "META_API_VERSION", StrV(<<"v", "2", "0", ".", "0">>)).s
    \o <<"/act_">> \o e["META_AD_ACCOUNT_ID"].s \o <<"/insights">>

\* Mutant of first_params_main: the breakdown is never asked for.
first_params_main_bare(e, w, breakdown) ==
    <<Item("access_token", e["META_ACCESS_TOKEN"]),
      Item("level", StrV(<<"campaign">>)),
      Item("time_increment", IntV(1)),
      Item("time_range", time_range(w)),
      Item("fields", StrV(FieldsMain)),
      Item("limit", IntV(PageLimit))>>

\* fetch_campaign_daily: the params of the first GET.
first_params_main(e, w, breakdown) ==
    <<Item("access_token", e["META_ACCESS_TOKEN"]),
      Item("level", StrV(<<"campaign">>)),
      Item("time_increment", IntV(1)),
      Item("time_range", time_range(w)),
      Item("fields", StrV(FieldsMain)),
      Item("limit", IntV(PageLimit))>>
    \o (IF breakdown THEN <<Item("breakdowns", StrV(<<"publisher_platform">>))>>
        ELSE <<>>)

\* fetch_insights: the params of the first GET.
first_params_cloudrun(e, w) ==
    <<Item("access_token", e["META_ACCESS_TOKEN"]),
      Item("time_increment", IntV(1)),
      Item("level", StrV(<<"campaign">>)),
      Item("breakdowns", StrV(<<"publisher_platform">>)),
      Item("time_range", time_range(w)),
      Item("fields", StrV(FieldsCloudrun)),
      Item("limit", IntV(PageLimit))>>

-----------------------------------------------------------------------------
(* Row Normalizer *)

\* The first position of character c in s, 0 when there is none.
IndexOf(s, c) ==
    IF \E k \in 1..Len(s) : s[k] = c
    THEN CHOOSE k \in 1..Len(s) : s[k] = c /\ \A j \in 1..(k - 1) : s[j] # c
    ELSE 0

RECURSIVE StripZeros(_)
StripZeros(s) ==
    IF s # <<>> /\ s[Len(s)] = "0" THEN StripZeros(SubSeq(s, 1, Len(s) - 1)) ELSE s

DigitsOrEmpty(s) == \A k \in 1..Len(s) : IsDigit(s[k])

\* float(s) on a str: sign, digits, at most one point, at least one digit
\* (exponents, inf, nan and whitespace never occur in the modelled inputs).
float_of_str(s) ==
    LET signed == s # <<>> /\ Head(s) \in {"+", "-"}
        body == IF signed THEN Tail(s) ELSE s
        dot == IndexOf(body, ".")
        ipart == IF dot = 0 THEN body ELSE SubSeq(body, 1, dot - 1)
        fpart == IF dot = 0 THEN <<>> ELSE SubSeq(body, dot + 1, Len(body))
    IN  IF DigitsOrEmpty(ipart) /\ DigitsOrEmpty(fpart) /\ (ipart # <<>> \/ fpart # <<>>)
        THEN [ok |-> TRUE,
              f |-> FloatV(signed /\ Head(s) = "-", DigitsValue(ipart, 0),
                           StripZeros(fpart))]
        ELSE [ok |-> FALSE, f |-> FloatV(FALSE, 0, <<>>)]

\* float(v): of a str, an int or a float; TypeError for anything else.
float_of(v) ==
    CASE v.t = "str" -> float_of_str(v.s)
      [] v.t = "int" ->
            [ok |-> TRUE, f |-> FloatV(v.n < 0, IF v.n < 0 THEN 0 - v.n ELSE v.n, <<>>)]
      [] v.t = "float" -> [ok |-> TRUE, f |-> v]
      [] OTHER -> [ok |-> FALSE, f |-> FloatV(FALSE, 0, <<>>)]

IsEmptyStr(v) == v.t = "str" /\ v.s = <<>>

\* Mutant of to_int: a value float() rejects is handed on as it is.
to_int_keep(v) ==
    IF v.t = "none" \/ IsEmptyStr(v) THEN NoneV
    ELSE IF float_of(v).ok
    THEN IntV(IF float_of(v).f.neg THEN 0 - float_of(v).f.ip ELSE float_of(v).f.ip)
    ELSE v

\* to_int(v): None and "" give None; int(float(v)) truncates toward zero;
\* any exception gives None.
to_int(v) ==
    IF v.t = "none" \/ IsEmptyStr(v) THEN NoneV
    ELSE IF float_of(v).ok
    THEN IntV(IF float_of(v).f.neg THEN 0 - float_of(v).f.ip ELSE float_of(v).f.ip)
    ELSE NoneV

\* to_float(v)
to_float(v) ==
    IF v.t = "none" \/ IsEmptyStr(v) THEN NoneV
    ELSE IF float_of(v).ok THEN float_of(v).f
    ELSE NoneV

\* str(v)
str_of(v) ==
    CASE v.t = "str" -> v.s
      [] v.t = "int" -> IntToStr(v.n)
      [] v.t = "float" -> FloatRepr(v)
      [] v.t = "none" -> <<"None">>
      [] OTHER -> <<"[]">>

\* to_str(v): None gives None; str(v), and None when that is empty.
to_str(v) ==
    IF v.t = "none" THEN NoneV
    ELSE IF str_of(v) # <<>> THEN StrV(str_of(v)) ELSE NoneV

TwoDigits(n) == <<Digit(n \div 10), Digit(n % 10)>>

\* datetime.isoformat() of an aware UTC instant.
isoformat_ts(ts) ==
    isoformat(ts.date) \o <<"T">> \o TwoDigits(ts.h) \o <<":">> \o TwoDigits(ts.mi)
    \o <<":">> \o TwoDigits(ts.s)
    \o (IF ts.us = 0 THEN <<>>
        ELSE <<".", Digit(ts.us \div 100000), Digit((ts.us \div 10000) % 10),
               Digit((ts.us \div 1000) % 10), Digit((ts.us \div 100) % 10),
               Digit((ts.us \div 10) % 10), Digit(ts.us % 10)>>)
    \o <<"+00:00">>

\* Mutant of bq_row: load_date is the local date of the run, not the date
\* of the ingestion instant.
bq_row_local(r, ts) ==
    [load_timestamp |-> StrV(isoformat_ts(ts)),
     load_date |-> StrV(isoformat(today)),
     date_start |-> Get(r, "date_start"),
     date_stop |-> Get(r, "date_stop"),
     account_id |-> to_str(Get(r, "account_id")),
     campaign_id |-> to_str(Get(r, "campaign_id")),
     campaign_name |-> to_str(Get(r, "campaign_name")),
     objective |-> to_str(Get(r, "objective")),
     publisher_platform |-> to_str(Get(r, "publisher_platform")),
     reach |-> to_int(Get(r, "reach")),
     impressions |-> to_int(Get(r, "impressions")),
     clicks |-> to_int(Get(r, "clicks")),
     spend |-> to_str(Get(r, "spend")),
     ctr |-> to_float(Get(r, "ctr")),
     cpc |-> to_str(Get(r, "cpc")),
     cpm |-> to_str(Get(r, "cpm")),
     meta_row_json |-> StrV(json_dumps(r))]

\* The dict build_bq_rows appends for raw record r.
bq_row(r, ts) ==
    [load_timestamp |-> StrV(isoformat_ts(ts)),
     load_date |-> StrV(isoformat(ts.date)),
     date_start |-> Get(r, "date_start"),
     date_stop |-> Get(r, "date_stop"),
     account_id |-> to_str(Get(r, "account_id")),
     campaign_id |-> to_str(Get(r, "campaign_id")),
     campaign_name |-> to_str(Get(r, "campaign_name")),
     objective |-> to_str(Get(r, "objective")),
     publisher_platform |-> to_str(Get(r, "publisher_platform")),
     reach |-> to_int(Get(r, "reach")),
     impressions |-> to_int(Get(r, "impressions")),
     clicks |-> to_int(Get(r, "clicks")),
     spend |-> to_str(Get(r, "spend")),
     ctr |-> to_float(Get(r, "ctr")),
     cpc |-> to_str(Get(r, "cpc")),
     cpm |-> to_str(Get(r, "cpm")),
     meta_row_json |-> StrV(json_dumps(r))]

\* Mutant of build_bq_rows: records without a campaign_id are skipped.
build_bq_rows_skip(rs, ts) ==
    LET Keep(r) == Truthy(Get(r, "campaign_id"))
        kept == SelectSeq(rs, Keep)
    IN  [k \in 1..Len(kept) |-> bq_row(kept[k], ts)]

\* build_bq_rows(rows, load_ts): one dict appended per raw record, in order.
build_bq_rows(rs, ts) == [k \in 1..Len(rs) |-> bq_row(rs[k], ts)]

-----------------------------------------------------------------------------
(* Bulk Loader *)

chunk_size == 500

\* Mutant of chunk_at: the slice ends one row early.
chunk_at_short(rs, off) == SubSeq(rs, off + 1, Min(off + chunk_size - 1, Len(rs)))

\* rows[i:i + chunk_size], i counted from 0.
chunk_at(rs, off) == SubSeq(rs, off + 1, Min(off + chunk_size, Len(rs)))

\* Mutant of insert_rows_json: the table is replaced by the rows sent.
insert_rows_json_replace(table, chunk, nerr) == IF nerr = 0 THEN chunk ELSE table

\* Mutant of insert_rows_json: a request with errors inserts its other rows.
insert_rows_json_partial(table, chunk, nerr) ==
    table \o SubSeq(chunk, 1, Len(chunk) - Min(nerr, Len(chunk)))

\* The table after client.insert_rows_json(table_id, chunk) answered with
\* nerr row-level errors: a request with errors inserts none of its rows
\* (skip_invalid_rows is left at its default), a clean one appends them all.
insert_rows_json(table, chunk, nerr) == IF nerr = 0 THEN table \o chunk ELSE table

\* Mutant of insert_failed: the errors are never acted on.
insert_failed_never(nerr) == FALSE

\* `if errors:` on the list insert_rows_json returned.
insert_failed(nerr) == nerr # 0

\* Mutant of count_chunk: a full batch is counted whatever the chunk holds.
count_chunk_full(n, chunk) == n + chunk_size

\* total += len(chunk)
count_chunk(n, chunk) == n + Len(chunk)

\* Mutant of has_rows: the loader is called whatever was fetched.
has_rows_always(b) == TRUE

\* `if bq_rows:` in main().
has_rows(b) == b # <<>>

ErrCounts == {0, 6}

ErrorsShown == 5

NoReturn == [t |-> "unset", s |-> <<>>, n |-> 0]

-----------------------------------------------------------------------------
(* The run *)

RequiredMain == <<"META_ACCESS_TOKEN", "META_AD_ACCOUNT_ID", "BQ_PROJECT",
                  "BQ_DATASET", "BQ_TABLE_RAW">>

RequiredCloudrun == <<"META_ACCESS_TOKEN", "META_AD_ACCOUNT_ID">>

EnvNames == {"META_ACCESS_TOKEN", "META_AD_ACCOUNT_ID", "BQ_PROJECT",
             "BQ_DATASET", "BQ_TABLE_RAW", "META_SINCE", "META_UNTIL",
             "LOOKBACK_DAYS", "META_API_VERSION"}

\* require_env(name) over the names in call order: the first name whose
\* value is missing or empty raises RuntimeError; "" when none does.
require_env(e, names) ==
    IF \E k \in 1..Len(names) : ~Truthy(e[names[k]])
    THEN names[CHOOSE k \in 1..Len(names) :
                   /\ ~Truthy(e[names[k]])
                   /\ \A j \in 1..(k - 1) : Truthy(e[names[j]])]
    ELSE ""

\* main(), src/main.py: the five require_env calls.
MainConfig ==
    /\ variant = "main" /\ pc = "config"
    /\ IF require_env(env, RequiredMain) = ""
       THEN pc' = "window" /\ raised' = raised
       ELSE pc' = "failed" /\ raised' = Exc("RuntimeError", require_env(env, RequiredMain))
    /\ UNCHANGED <<variant, env, today, utcnow, chain, peer, window, url, next_params, rows, requests,
                   pages, log, load_ts, bq_rows, i, total, ret, calls, sink>>

\* main(), src/main.py: compute_window(), the "Fetching" line, and the
\* set-up of fetch_campaign_daily up to its loop.
MainWindow ==
    /\ variant = "main" /\ pc = "window"
    /\ LET w == compute_window(env, today)
       IN  IF w.ok
           THEN /\ window' = <<w.since, w.until>>
                /\ log' = Append(log, Line("stdout", "Fetching", 0, w.since \o w.until))
                /\ url' = base_url(env)
                /\ next_params' = first_params_main(env, <<w.since, w.until>>, TRUE)
                /\ rows' = <<>>
                /\ pc' = "fetch"
                /\ raised' = raised
           ELSE /\ pc' = "failed"
                /\ raised' = w.exc
                /\ UNCHANGED <<window, log, url, next_params, rows>>
    /\ UNCHANGED <<variant, env, today, utcnow, chain, peer, requests, pages, load_ts, bq_rows, i,
                   total, ret, calls, sink>>

\* main(), src/meta_ads_cloudrun/main.py: the two require_env calls, the
\* lookback window, and the set-up of fetch_insights up to its loop.
CloudrunMain ==
    /\ variant = "cloudrun" /\ pc = "config"
    /\ LET w == lookback_window(env, today)
       IN  IF require_env(env, RequiredCloudrun) # ""
           THEN /\ pc' = "failed"
                /\ raised' = Exc("RuntimeError", require_env(env, RequiredCloudrun))
                /\ UNCHANGED <<window, url, next_params, rows>>
           ELSE IF ~w.ok
           THEN /\ pc' = "failed"
                /\ raised' = w.exc
                /\ UNCHANGED <<window, url, next_params, rows>>
           ELSE /\ window' = <<w.since, w.until>>
                /\ url' = base_url(env)
                /\ next_params' = first_params_cloudrun(env, <<w.since, w.until>>)
                /\ rows' = <<>>
                /\ pc' = "fetch"
                /\ raised' = raised
    /\ UNCHANGED <<variant, env, today, utcnow, chain, peer, requests, pages, log, load_ts, bq_rows,
                   i, total, ret, calls, sink>>

\* fetch_campaign_daily: one turn of its loop, the GET by meta_get included.
FetchCampaignDaily ==
    /\ variant = "main" /\ pc = "fetch"
    /\ \E a \in Upstream(chain, pages) :
       LET r == Respond(a, pages) IN
        /\ requests' = Append(requests, [url |-> url, params |-> next_params])
        /\ pages' = Append(pages, r)
        /\ log' = log \o meta_get(r).printed
        /\ IF meta_get(r).exc # ExcNone
           THEN /\ pc' = "failed"
                /\ raised' = meta_get(r).exc
                /\ UNCHANGED <<rows, url, next_params>>
           ELSE /\ rows' = rows_extend(rows, r)
                /\ raised' = raised
                /\ IF no_next(r)
                   THEN pc' = "fetched" /\ UNCHANGED <<url, next_params>>
                   ELSE pc' = "fetch" /\ url' = r.next.s /\ next_params' = <<>>
    /\ UNCHANGED <<variant, env, today, utcnow, chain, peer, window, load_ts, bq_rows, i, total, ret,
                   calls, sink>>

\* What requests.get, raise_for_status and r.json() of fetch_insights raise.
insights_get(r) ==
    IF raise_for_status(r) THEN Exc("HTTPError", "status")
    ELSE IF ~r.json THEN Exc("JSONDecodeError", "body")
    ELSE ExcNone

\* fetch_insights: one turn of its loop.
FetchInsights ==
    /\ variant = "cloudrun" /\ pc = "fetch"
    /\ \E a \in Upstream(chain, pages) :
       LET r == Respond(a, pages) IN
        /\ requests' = Append(requests, [url |-> url, params |-> next_params])
        /\ pages' = Append(pages, r)
        /\ IF insights_get(r) # ExcNone
           THEN /\ pc' = "failed"
                /\ raised' = insights_get(r)
                /\ UNCHANGED <<rows, url, next_params>>
           ELSE /\ rows' = rows_extend(rows, r)
                /\ raised' = raised
                /\ IF no_next(r)
                   THEN pc' = "fetched" /\ UNCHANGED <<url, next_params>>
                   ELSE pc' = "fetch" /\ url' = r.next.s /\ next_params' = <<>>
    /\ UNCHANGED <<variant, env, today, utcnow, chain, peer, window, log, load_ts, bq_rows, i, total,
                   ret, calls, sink>>

\* main(), src/meta_ads_cloudrun/main.py: the closing print.
CloudrunReport ==
    /\ variant = "cloudrun" /\ pc = "fetched"
    /\ log' = Append(log, Line("stdout", "Fetched", Len(rows), window[1] \o window[2]))
    /\ pc' = "done"
    /\ UNCHANGED <<variant, env, today, utcnow, chain, peer, raised, window, url, next_params, rows,
                   requests, pages, load_ts, bq_rows, i, total, ret, calls, sink>>

\* The instants datetime.now(timezone.utc) may give.
InstantA == [date |-> [y |-> 2024, m |-> 3, d |-> 1], h |-> 0, mi |-> 5, s |-> 9, us |-> 0]
InstantB == [date |-> [y |-> 2024, m |-> 3, d |-> 2], h |-> 23, mi |-> 59, s |-> 59, us |-> 123]
Instants == {InstantA, InstantB}

NoInstant == [date |-> [y |-> 0, m |-> 0, d |-> 0], h |-> 0, mi |-> 0, s |-> 0, us |-> 0]

\* main(), src/main.py: the "Fetched" line, the ingestion instant,
\* build_bq_rows, and either the start of insert_into_bigquery or the
\* "No rows to insert" line.
MainNormalize ==
    /\ variant = "main" /\ pc = "fetched"
    /\ load_ts' = utcnow
    /\ bq_rows' = build_bq_rows(rows, utcnow)
    /\ IF has_rows(build_bq_rows(rows, utcnow))
       THEN /\ log' = Append(log, Line("stdout", "Fetched", Len(rows), <<>>))
            /\ i' = 0
            /\ total' = 0
            /\ pc' = "insert"
       ELSE /\ log' = log \o <<Line("stdout", "Fetched", Len(rows), <<>>),
                               Line("stdout", "No rows to insert", 0, <<>>)>>
            /\ pc' = "done"
            /\ UNCHANGED <<i, total>>
    /\ UNCHANGED <<variant, env, today, utcnow, chain, peer, raised, window, url, next_params, rows,
                   requests, pages, ret, calls, sink>>

\* insert_into_bigquery: one turn of its loop, and after the last turn
\* (at once when range(0, len(rows), chunk_size) is empty) the "Inserted"
\* line and the return to main().
InsertChunk ==
    /\ variant = "main" /\ pc = "insert"
    /\ IF i >= Len(bq_rows)
       THEN /\ log' = Append(log, Line("stdout", "Inserted", total, <<>>))
            /\ ret' = NoneV
            /\ pc' = "done"
            /\ UNCHANGED <<calls, sink, raised, i, total>>
       ELSE \E nerr \in ErrCounts :
            LET chunk == chunk_at(bq_rows, i)
            IN  /\ calls' = Append(calls, [chunk |-> chunk, errors |-> nerr])
                /\ sink' = insert_rows_json(sink, chunk, nerr)
                /\ IF insert_failed(nerr)
                   THEN /\ log' = Append(log, Line("stderr",
                                                   "BigQuery insert errors (first 5):",
                                                   Min(nerr, ErrorsShown), <<>>))
                        /\ raised' = Exc("RuntimeError", "BigQuery insert failed")
                        /\ pc' = "failed"
                        /\ UNCHANGED <<i, total, ret>>
                   ELSE /\ total' = count_chunk(total, chunk)
                        /\ i' = i + chunk_size
                        /\ raised' = raised
                        /\ IF i + chunk_size < Len(bq_rows)
                           THEN pc' = "insert" /\ UNCHANGED <<log, ret>>
                           ELSE /\ log' = Append(log, Line("stdout", "Inserted",
                                                           count_chunk(total, chunk), <<>>))
                                /\ ret' = NoneV
                                /\ pc' = "done"
    /\ UNCHANGED <<variant, env, today, utcnow, chain, peer, window, url, next_params, rows, requests,
                   pages, load_ts, bq_rows>>

\* No second run.
NoPeer == [pc |-> "none"]

\* The state of the running process that is its own: everything but the
\* environment and the destination table.
Local ==
    [utcnow |-> utcnow, pc |-> pc, raised |-> raised, window |-> window, url |-> url,
     next_params |-> next_params, rows |-> rows, requests |-> requests,
     pages |-> pages, log |-> log, load_ts |-> load_ts, bq_rows |-> bq_rows, i |-> i,
     total |-> total, ret |-> ret, calls |-> calls]

\* Two processes running main() of src/main.py at once: the scheduler
\* suspends the one and resumes the other. Nothing of the program runs;
\* the table, which they share, stays as it is.
Switch ==
    /\ peer # NoPeer
    /\ peer' = Local
    /\ utcnow' = peer.utcnow
    /\ pc' = peer.pc
    /\ raised' = peer.raised
    /\ window' = peer.window
    /\ url' = peer.url
    /\ next_params' = peer.next_params
    /\ rows' = peer.rows
    /\ requests' = peer.requests
    /\ pages' = peer.pages
    /\ log' = peer.log
    /\ load_ts' = peer.load_ts
    /\ bq_rows' = peer.bq_rows
    /\ i' = peer.i
    /\ total' = peer.total
    /\ ret' = peer.ret
    /\ calls' = peer.calls
    /\ UNCHANGED <<variant, env, today, chain, sink>>

-----------------------------------------------------------------------------
(* Environments and initial states *)

Some(s) == StrV(s)

GoodEnv ==
    [nm \in EnvNames |->
        CASE nm = "META_ACCESS_TOKEN" -> Some(<<"t", "o", "k">>)
          [] nm = "META_AD_ACCOUNT_ID" -> Some(<<"4", "2">>)
          [] nm = "BQ_PROJECT" -> Some(<<"p">>)
          [] nm = "BQ_DATASET" -> Some(<<"d">>)
          [] nm = "BQ_TABLE_RAW" -> Some(<<"r">>)
          [] OTHER -> NoneV]

\* Override strings: well formed, well formed but no calendar date, and
\* malformed by separator and by length.
Date0101 == <<"2", "0", "2", "4", "-", "0", "1", "-", "0", "1">>
Date0131 == <<"2", "0", "2", "4", "-", "0", "1", "-", "3", "1">>
Date9999 == <<"9", "9", "9", "9", "-", "9", "9", "-", "9", "9">>
DateSlash == <<"2", "0", "2", "4", "/", "0", "1", "/", "0", "1">>
DateShort == <<"2", "0", "2", "4", "-", "1", "-", "1">>

Overrides == {NoneV, Some(<<>>), Some(Date0101), Some(Date0131), Some(Date9999),
              Some(DateSlash), Some(DateShort)}

Lookbacks == {NoneV, Some(<<>>), Some(<<"0">>), Some(<<"1">>), Some(<<"3", "0">>),
              Some(<<"-", "2">>), Some(<<"a", "b", "c">>)}

Todays == {[y |-> 2024, m |-> 3, d |-> 1], [y |-> 2024, m |-> 1, d |-> 1],
           [y |-> 2023, m |-> 3, d |-> 10]}

\* The runs of the whole-run specification: src/main.py with at most one
\* required value missing or empty, without overrides and with a malformed
\* one; src/meta_ads_cloudrun/main.py with another API version and lookback.
MainEnvs ==
    {GoodEnv}
    \cup {[GoodEnv EXCEPT ![nm] = v] :
            nm \in {RequiredMain[k] : k \in 1..Len(RequiredMain)},
            v \in {NoneV, Some(<<>>)}}
    \cup {[GoodEnv EXCEPT !["META_SINCE"] = Some(DateSlash),
                          !["META_UNTIL"] = Some(Date0131)]}

CloudrunEnvs ==
    {[GoodEnv EXCEPT !["META_API_VERSION"] = Some(<<"v", "1", "9", ".", "0">>),
                     !["LOOKBACK_DAYS"] = Some(<<"0">>)],
     [GoodEnv EXCEPT !["META_ACCESS_TOKEN"] = NoneV],
     [GoodEnv EXCEPT !["META_AD_ACCOUNT_ID"] = Some(<<>>)],
     [GoodEnv EXCEPT !["LOOKBACK_DAYS"] = Some(<<"a", "b", "c">>)]}

\* The state of a fresh process.
Fresh ==
    /\ raised = ExcNone
    /\ window = <<>>
    /\ url = <<>>
    /\ next_params = <<>>
    /\ rows = <<>>
    /\ requests = <<>>
    /\ pages = <<>>
    /\ log = <<>>
    /\ load_ts = NoInstant
    /\ bq_rows = <<>>
    /\ i = 0
    /\ total = 0
    /\ ret = NoReturn
    /\ calls = <<>>
    /\ sink = <<>>

\* A fresh process of either file. The UTC clock reads InstantB, a day
\* ahead of the local date, in the runs of src/main.py.
Init ==
    /\ \/ variant = "main" /\ env \in MainEnvs
       \/ variant = "cloudrun" /\ env \in CloudrunEnvs
    /\ today = [y |-> 2024, m |-> 3, d |-> 1]
    /\ utcnow = (IF variant = "main" THEN InstantB ELSE InstantA)
    /\ chain = "finite"
    /\ peer = NoPeer
    /\ pc = "config"
    /\ Fresh

Next ==
    \/ MainConfig
    \/ MainWindow
    \/ CloudrunMain
    \/ FetchCampaignDaily
    \/ FetchInsights
    \/ CloudrunReport
    \/ MainNormalize
    \/ InsertChunk

Spec == Init /\ [][Next]_vars


-----------------------------------------------------------------------------
(* The window computation alone, over many environments and days *)

WindowEnvs ==
    {[GoodEnv EXCEPT !["META_SINCE"] = s, !["META_UNTIL"] = u, !["LOOKBACK_DAYS"] = l] :
        s \in Overrides, u \in Overrides, l \in Lookbacks}

\* main() of either file, about to compute its window.
InitWindow ==
    /\ variant \in {"main", "cloudrun"}
    /\ env \in WindowEnvs
    /\ today \in Todays
    /\ utcnow = InstantA
    /\ chain = "finite"
    /\ peer = NoPeer
    /\ pc = (IF variant = "main" THEN "window" ELSE "config")
    /\ Fresh

NextWindow ==
    \/ MainWindow
    \/ CloudrunMain

SpecWindow == InitWindow /\ [][NextWindow]_vars

-----------------------------------------------------------------------------
(* The Row Normalizer alone, over raw records of every modelled shape *)

MaxNormRows == 2

\* The raw record of the specification's example.
RawExample ==
    <<Item("reach", StrV(<<"1", "5", "0", "0">>)),
      Item("spend", StrV(<<"1", "2", ".", "5", "0">>)),
      Item("ctr", StrV(<<>>)),
      Item("campaign_name", NoneV)>>

\* Every column present, numbers as strings.
RawFull ==
    <<Item("date_start", StrV(Date0101)), Item("date_stop", StrV(Date0101)),
      Item("account_id", StrV(<<"4", "2">>)), Item("campaign_id", StrV(<<"7">>)),
      Item("campaign_name", StrV(<<"a", "b">>)), Item("objective", StrV(<<"c">>)),
      Item("publisher_platform", StrV(<<"b">>)),
      Item("reach", StrV(<<"1", "0">>)), Item("impressions", StrV(<<"2", "0", "0">>)),
      Item("clicks", StrV(<<"3">>)), Item("spend", StrV(<<"1", ".", "5">>)),
      Item("ctr", StrV(<<"1", ".", "5", "0">>)), Item("cpc", StrV(<<"0", ".", "5">>)),
      Item("cpm", StrV(<<"7", ".", "5">>))>>

RawEmpty == <<>>

\* Values no column can take as they are.
RawOdd ==
    <<Item("campaign_id", StrV(<<>>)), Item("account_id", IntV(42)),
      Item("reach", StrV(<<"a", "b", "c">>)), Item("impressions", ListV),
      Item("clicks", StrV(<<"-", "2", ".", "9">>)),
      Item("ctr", StrV(<<"a", ".", "b">>)), Item("spend", FloatV(FALSE, 12, <<"5">>)),
      Item("objective", ListV)>>

\* Numbers as JSON numbers.
RawNumeric ==
    <<Item("campaign_id", IntV(7)), Item("reach", IntV(7)),
      Item("impressions", FloatV(FALSE, 3, <<"9">>)), Item("clicks", IntV(0)),
      Item("ctr", FloatV(FALSE, 0, <<"2", "5">>)), Item("cpc", IntV(0 - 1)),
      Item("date_start", NoneV)>>

\* Number strings at the edges of float()'s grammar.
RawEdges ==
    <<Item("campaign_id", StrV(<<"7">>)), Item("reach", StrV(<<"1", ".">>)),
      Item("impressions", StrV(<<".", "5">>)), Item("clicks", StrV(<<"+", "3">>)),
      Item("ctr", StrV(<<".">>)), Item("spend", StrV(<<>>)),
      Item("cpm", StrV(<<"-">>))>>

DomainColumns ==
    {"date_start", "date_stop", "account_id", "campaign_id", "campaign_name",
     "objective", "publisher_platform", "reach", "impressions", "clicks", "spend",
     "ctr", "cpc", "cpm"}

ColumnOrder ==
    <<"date_start", "date_stop", "account_id", "campaign_id", "campaign_name",
      "objective", "publisher_platform", "reach", "impressions", "clicks", "spend",
      "ctr", "cpc", "cpm">>

\* Every column present and null.
RawNulls == [k \in 1..Len(ColumnOrder) |-> Item(ColumnOrder[k], NoneV)]

\* Every column present and the empty string.
RawBlank == [k \in 1..Len(ColumnOrder) |-> Item(ColumnOrder[k], StrV(<<>>))]

Catalogue == {RawExample, RawFull, RawEmpty, RawOdd, RawNumeric, RawEdges, RawNulls,
              RawBlank}

RawSeqs == UNION {[1..n -> Catalogue] : n \in 0..MaxNormRows}

\* main() of src/main.py when fetch_campaign_daily has returned the
\* records of a one-page answer.
InitNorm ==
    /\ variant = "main"
    /\ env = GoodEnv
    /\ today = [y |-> 2024, m |-> 3, d |-> 1]
    /\ utcnow \in Instants
    /\ chain = "finite"
    /\ peer = NoPeer
    /\ pc = "fetched"
    /\ raised = ExcNone
    /\ window = <<compute_window(env, today).since, compute_window(env, today).until>>
    /\ url = base_url(env)
    /\ next_params = first_params_main(env, window, TRUE)
    /\ rows \in RawSeqs
    /\ requests = <<[url |-> url, params |-> next_params]>>
    /\ pages = <<Response(200, TRUE, 120, TRUE, rows, NoneV)>>
    /\ log = <<Line("stdout", "Fetching", 0, window[1] \o window[2])>>
    /\ load_ts = NoInstant
    /\ bq_rows = <<>>
    /\ i = 0
    /\ total = 0
    /\ ret = NoReturn
    /\ calls = <<>>
    /\ sink = <<>>

NextNorm == MainNormalize

SpecNorm == InitNorm /\ [][NextNorm]_vars

-----------------------------------------------------------------------------
(* Whole runs of src/main.py over the environments it may be started in *)

\* The environments of the whole-run specification, and a malformed
\* override supplied alone, as start and as end date.
StartEnvs ==
    MainEnvs
    \cup {[GoodEnv EXCEPT !["META_UNTIL"] = Some(DateShort)],
          [GoodEnv EXCEPT !["META_SINCE"] = Some(DateSlash)]}

InitStart ==
    /\ variant = "main"
    /\ env \in StartEnvs
    /\ today = [y |-> 2024, m |-> 3, d |-> 1]
    /\ utcnow = InstantB
    /\ chain = "finite"
    /\ peer = NoPeer
    /\ pc = "config"
    /\ Fresh

NextStart ==
    \/ MainConfig
    \/ MainWindow
    \/ FetchCampaignDaily
    \/ MainNormalize
    \/ InsertChunk

SpecStart == InitStart /\ [][NextStart]_vars

-----------------------------------------------------------------------------
(* The pagination loop alone, against finite and endless cursor chains *)

\* main() of either file, entering the loop of its fetcher. The loop is
\* the only thread and each GET returns or raises (timeout=60), so a turn
\* that can be taken is taken.
InitPaging ==
    /\ variant \in {"main", "cloudrun"}
    /\ env = GoodEnv
    /\ today = [y |-> 2024, m |-> 3, d |-> 1]
    /\ utcnow = InstantA
    /\ chain \in {"finite", "endless"}
    /\ peer = NoPeer
    /\ pc = "fetch"
    /\ raised = ExcNone
    /\ window = <<lookback_window(env, today).since, lookback_window(env, today).until>>
    /\ url = base_url(env)
    /\ next_params = (IF variant = "main" THEN first_params_main(env, window, TRUE)
                                          ELSE first_params_cloudrun(env, window))
    /\ rows = <<>>
    /\ requests = <<>>
    /\ pages = <<>>
    /\ log = (IF variant = "main"
              THEN <<Line("stdout", "Fetching", 0, window[1] \o window[2])>>
              ELSE <<>>)
    /\ load_ts = NoInstant
    /\ bq_rows = <<>>
    /\ i = 0
    /\ total = 0
    /\ ret = NoReturn
    /\ calls = <<>>
    /\ sink = <<>>

NextPaging ==
    \/ FetchCampaignDaily
    \/ FetchInsights

SpecPaging ==
    InitPaging /\ [][NextPaging]_vars
    /\ WF_vars(FetchCampaignDaily) /\ WF_vars(FetchInsights)

-----------------------------------------------------------------------------
(* Two runs of src/main.py over the same upstream data and one table *)

\* The numbers of records the upstream holds for the window: one batch,
\* a full batch and one row, two full batches.
TwoRunSizes == {1, 501, 1000}

\* Two processes of main(), each with the same records fetched in one
\* page and about to read the clock, the second a day later; they run
\* one after the other or in turns, as the scheduler has it.
InitTwoRuns ==
    /\ variant = "main"
    /\ env = GoodEnv
    /\ today = [y |-> 2024, m |-> 3, d |-> 1]
    /\ utcnow = InstantA
    /\ chain = "finite"
    /\ pc = "fetched"
    /\ raised = ExcNone
    /\ window = <<compute_window(env, today).since, compute_window(env, today).until>>
    /\ url = base_url(env)
    /\ next_params = first_params_main(env, window, TRUE)
    /\ rows \in {RawRange(0, n) : n \in TwoRunSizes}
    /\ requests = <<[url |-> url, params |-> next_params]>>
    /\ pages = <<Response(200, TRUE, 120, TRUE, rows, NoneV)>>
    /\ log = <<Line("stdout", "Fetching", 0, window[1] \o window[2])>>
    /\ load_ts = NoInstant
    /\ bq_rows = <<>>
    /\ i = 0
    /\ total = 0
    /\ ret = NoReturn
    /\ calls = <<>>
    /\ sink = <<>>
    /\ peer = [Local EXCEPT !.utcnow = InstantB]

NextTwoRuns ==
    \/ MainNormalize
    \/ InsertChunk
    \/ Switch

SpecTwoRuns == InitTwoRuns /\ [][NextTwoRuns]_vars

-----------------------------------------------------------------------------
(* Properties *)

\* The fetcher has returned its rows to main().
FetchReturned == pc \in {"fetched", "insert", "done"} \/ calls # <<>>

RECURSIVE ConcatData(_)
ConcatData(ps) == IF ps = <<>> THEN <<>> ELSE ps[1].data \o ConcatData(Tail(ps))

CarriesNext(p) == p.next.t = "str" /\ p.next.s # <<>>

\* C1: when the fetcher (fetch_campaign_daily or fetch_insights) returns,
\* the responses it received form a chain of n >= 1 successful pages of
\* which exactly the last carries no next reference, exactly n GETs were
\* issued, and the rows returned are the pages' data lists concatenated in
\* page order.
C1_FetchConcatenatesPages ==
    FetchReturned =>
        /\ Len(pages) >= 1
        /\ \A k \in 1..Len(pages) : pages[k].status < 400
        /\ \A k \in 1..(Len(pages) - 1) : CarriesNext(pages[k])
        /\ ~CarriesNext(pages[Len(pages)])
        /\ Len(requests) = Len(pages)
        /\ rows = ConcatData(pages)

C1_Witness ==
    /\ pc = "fetched"
    /\ Len(pages) = 3
    /\ \A k \in 1..3 : Len(pages[k].data) > 0
    /\ Len(rows) = 1200

RECURSIVE ConcatChunks(_)
ConcatChunks(cs) == IF cs = <<>> THEN <<>> ELSE cs[1].chunk \o ConcatChunks(Tail(cs))

NoBatchErrors == \A k \in 1..Len(calls) : calls[k].errors = 0

\* C2: every insert call carries the next contiguous slice of at most 500
\* rows, in row order; a load of N >= 1 rows in which no batch reports
\* errors issues exactly ceil(N/500) calls, all but the last of 500 rows,
\* the last of N - 500*(ceil(N/500) - 1) rows, and the batches concatenated
\* are the input rows.
C2_BatchesPartitionRows ==
    /\ \A k \in 1..Len(calls) :
          calls[k].chunk = SubSeq(bq_rows, 500 * (k - 1) + 1, Min(500 * k, Len(bq_rows)))
    /\ (pc = "done" /\ Len(bq_rows) >= 1 /\ NoBatchErrors) =>
          LET N == Len(bq_rows)
              c == (N + 499) \div 500
          IN  /\ Len(calls) = c
              /\ \A k \in 1..(c - 1) : Len(calls[k].chunk) = 500
              /\ Len(calls[c].chunk) = N - 500 * (c - 1)
              /\ ConcatChunks(calls) = bq_rows

C2_Witness ==
    /\ pc = "done"
    /\ Len(bq_rows) = 1200
    /\ Len(calls) = 3
    /\ Len(calls[1].chunk) = 500 /\ Len(calls[2].chunk) = 500 /\ Len(calls[3].chunk) = 200

\* C3: a batch k for which the sink reports errors is the last insert call
\* of the run, the run has ended in failure, and the sink holds the rows of
\* batches 1..k-1.
C3_ErrorAbortsKeepsCommitted ==
    \A k \in 1..Len(calls) :
        calls[k].errors # 0 =>
            /\ k = Len(calls)
            /\ pc = "failed"
            /\ raised.type = "RuntimeError"
            /\ Len(sink) >= 500 * (k - 1)
            /\ SubSeq(sink, 1, 500 * (k - 1)) = SubSeq(bq_rows, 1, 500 * (k - 1))

C3_Witness ==
    /\ pc = "failed"
    /\ Len(bq_rows) = 1200
    /\ Len(calls) = 3
    /\ calls[3].errors # 0
    /\ Len(sink) = 1000

LoadFailed == pc = "failed" /\ calls # <<>> /\ calls[Len(calls)].errors # 0

LoadSucceeded == pc = "done" /\ calls # <<>>

InsertedLines == {k \in 1..Len(log) : log[k].msg = "Inserted"}

C5_EmptyFetchShortCircuits ==
    (variant = "main" /\ FetchReturned /\ rows = <<>>) =>
        /\ calls = <<>>
        /\ sink = <<>>
        /\ pc \in {"fetched", "done"}
        /\ ret = NoReturn
        /\ raised = ExcNone
        /\ pc = "done" => \E k \in 1..Len(log) : log[k].msg = "Fetched" /\ log[k].n = 0

C5_Witness ==
    /\ variant = "main"
    /\ pc = "done"
    /\ Len(pages) = 2
    /\ rows = <<>>
    /\ calls = <<>>

BodyLines == {k \in 1..Len(log) : log[k].msg \in {"Body:", "Body (text):"}}

\* C6: a response with status >= 400 is the last one of the run: its body
\* has been logged, the fetch has raised, no GET follows it and no insert
\* call reaches the sink.
C6_UpstreamErrorLoggedAndFatal ==
    \A k \in 1..Len(pages) :
        pages[k].status >= 400 =>
            /\ k = Len(pages)
            /\ Len(requests) = k
            /\ pc = "failed"
            /\ raised.type = "HTTPError"
            /\ BodyLines # {}
            /\ calls = <<>>

Supplied(v) == v.t = "str" /\ v.s # <<>>

FormatOk(s) == Len(s) = 10 /\ s[5] = "-" /\ s[8] = "-"

WindowDone == IF variant = "main" THEN pc # "window" ELSE pc # "config"

\* C7: once compute_window has run, a supplied override that fails the
\* format check has made it raise ValueError and return no window,
\* whether one or both overrides were supplied.
C7_MalformedOverrideRaises ==
    (variant = "main" /\ WindowDone
     /\ \/ Supplied(env["META_SINCE"]) /\ ~FormatOk(env["META_SINCE"].s)
        \/ Supplied(env["META_UNTIL"]) /\ ~FormatOk(env["META_UNTIL"].s)) =>
        /\ pc = "failed"
        /\ raised.type = "ValueError"
        /\ window = <<>>

BothOverridesOk ==
    /\ Supplied(env["META_SINCE"]) /\ FormatOk(env["META_SINCE"].s)
    /\ Supplied(env["META_UNTIL"]) /\ FormatOk(env["META_UNTIL"].s)

\* LOOKBACK_DAYS as an integer, 14 when unset.
LookbackDays ==
    IF env["LOOKBACK_DAYS"].t = "none" THEN 14 ELSE int_of_str(env["LOOKBACK_DAYS"].s).n

DefaultWindow == <<isoformat(MinusDays(today, LookbackDays)), isoformat(PrevDay(today))>>

\* C8: compute_window returns the override pair unchanged when both
\* overrides are supplied and pass the format check, and never fails then;
\* every other window it returns, and every window the cloudrun main()
\* computes, is (today - lookback_days, today - 1 day), lookback_days
\* defaulting to 14.
C8_WindowIsOverrideOrLookback ==
    /\ (variant = "main" /\ BothOverridesOk /\ WindowDone) =>
          window = <<env["META_SINCE"].s, env["META_UNTIL"].s>>
    /\ (window # <<>> /\ ~(variant = "main" /\ BothOverridesOk)) =>
          window = DefaultWindow

C8_Witness ==
    /\ variant = "main"
    /\ pc = "fetch"
    /\ env["META_SINCE"] = StrV(Date0131)
    /\ env["META_UNTIL"] = NoneV
    /\ env["LOOKBACK_DAYS"] = NoneV
    /\ today = [y |-> 2024, m |-> 3, d |-> 1]
    /\ window = <<isoformat([y |-> 2024, m |-> 2, d |-> 16]),
                  isoformat([y |-> 2024, m |-> 2, d |-> 29])>>

\* C9: every window compute_window returns has since <= until, for every
\* override pair that passes the format check and, without overrides, for
\* every lookback L >= 0.
C9_WindowOrdered ==
    (variant = "main" /\ window # <<>>
     /\ \/ BothOverridesOk
        \/ /\ ~Supplied(env["META_SINCE"]) /\ ~Supplied(env["META_UNTIL"])
           /\ LookbackDays >= 0) =>
        StrLeq(window[1], window[2])

\* C10: build_bq_rows gives one row per raw record, in order: the output
\* is as long as the input and row k is the row of record k, its audit
\* column the serialization of record k.
C10_OneRowPerRecordInOrder ==
    (variant = "main" /\ pc \in {"insert", "done", "failed"} /\ load_ts # NoInstant) =>
        /\ Len(bq_rows) = Len(rows)
        /\ \A k \in 1..Len(rows) :
              /\ bq_rows[k].meta_row_json = StrV(json_dumps(rows[k]))
              /\ bq_rows[k] = bq_row(rows[k], load_ts)

C10_Witness ==
    /\ pc = "insert"
    /\ rows = <<RawOdd, RawExample>>
    /\ Len(bq_rows) = 2
    /\ bq_rows[1].campaign_id = NoneV
    /\ bq_rows[2].reach = IntV(1500)

\* main() of src/main.py is past build_bq_rows.
Normalized == variant = "main" /\ pc \in {"insert", "done", "failed"} /\ load_ts # NoInstant

\* The key is absent from the raw record, or its value is null or "".
Nullish(r, c) == ~HasKey(r, c) \/ Get(r, c) = NoneV \/ Get(r, c) = StrV(<<>>)

\* C11: in every normalized row, every domain column whose key is absent
\* from the raw record, or null or the empty string in it, is null.
C11_NullishGivesNull ==
    Normalized =>
        \A k \in 1..Len(rows) : \A c \in DomainColumns :
            Nullish(rows[k], c) => bq_rows[k][c] = NoneV

\* The ingestion instant has been captured: the fetch is over (its last
\* page, without a next reference, was received and no GET followed) and
\* every normalized row carries that instant and its calendar date.
InstantCaptured ==
    /\ pages # <<>>
    /\ pages[Len(pages)].status < 400
    /\ ~CarriesNext(pages[Len(pages)])
    /\ Len(requests) = Len(pages)
    /\ Len(bq_rows) = Len(rows)
    /\ LET stamp == StrV(isoformat_ts(load_ts))
           day == StrV(isoformat(load_ts.date))
       IN  \A k \in 1..Len(bq_rows) :
             bq_rows[k].load_timestamp = stamp /\ bq_rows[k].load_date = day

\* C12: a run captures one ingestion instant: none while it fetches (and
\* then there is no normalized row and no insert call), the clock's reading
\* after the last page was received, never changed afterwards and followed
\* by no further GET; every normalized row carries that instant as its
\* load_timestamp and the instant's calendar date as its load_date.
C12_OneInstantPerRun ==
    /\ [](IF load_ts = NoInstant
          THEN bq_rows = <<>> /\ calls = <<>>
          ELSE load_ts = utcnow /\ InstantCaptured)
    /\ [][/\ load_ts = NoInstant => calls' = <<>>
          /\ load_ts # NoInstant =>
                load_ts' = load_ts /\ Len(requests') = Len(requests)]_vars

C12_Witness ==
    /\ pc = "done"
    /\ Len(calls) = 3
    /\ Len(bq_rows) = 1200
    /\ load_ts = InstantB
    /\ today = [y |-> 2024, m |-> 3, d |-> 1]
    /\ bq_rows[1200].load_date = StrV(isoformat([y |-> 2024, m |-> 3, d |-> 2]))

\* A text float() accepts: an optional sign, then digits with at most one
\* point among them and at least one digit.
NumericText(s) ==
    LET body == IF s # <<>> /\ s[1] \in {"+", "-"} THEN Tail(s) ELSE s
    IN  /\ \A k \in 1..Len(body) : body[k] = "." \/ IsDigit(body[k])
        /\ Cardinality({k \in 1..Len(body) : body[k] = "."}) <= 1
        /\ \E k \in 1..Len(body) : IsDigit(body[k])

\* A value that is present and no number: a text float() rejects, or a list.
NonNumeric(v) == v.t = "list" \/ (v.t = "str" /\ v.s # <<>> /\ ~NumericText(v.s))

\* The coercion build_bq_rows applies to column c.
Coerced(c, v) ==
    IF c \in {"reach", "impressions", "clicks"} THEN to_int(v)
    ELSE IF c = "ctr" THEN to_float(v)
    ELSE IF c \in {"date_start", "date_stop"} THEN v
    ELSE to_str(v)

\* C13: the normalizer never fails and emits a row for every raw record;
\* a non-numeric value in reach, impressions, clicks or ctr gives null in
\* that column, and every column of the row is the coercion of its own raw
\* value, whatever the other columns held.
C13_CoercionFailuresSwallowed ==
    Normalized =>
        /\ raised = ExcNone
        /\ Len(bq_rows) = Len(rows)
        /\ \A k \in 1..Len(rows) :
              /\ \A c \in {"reach", "impressions", "clicks", "ctr"} :
                    NonNumeric(Get(rows[k], c)) => bq_rows[k][c] = NoneV
              /\ \A c \in DomainColumns :
                    ~NonNumeric(Get(rows[k], c)) =>
                        bq_rows[k][c] = Coerced(c, Get(rows[k], c))

C13_Witness ==
    /\ pc = "insert"
    /\ rows = <<RawOdd, RawEdges>>
    /\ bq_rows[1].reach = NoneV
    /\ bq_rows[1].impressions = NoneV
    /\ bq_rows[1].clicks = IntV(0 - 2)
    /\ bq_rows[1].ctr = NoneV
    /\ bq_rows[1].account_id = StrV(<<"4", "2">>)
    /\ bq_rows[2].ctr = NoneV
    /\ bq_rows[2].reach = IntV(1)

\* The last response received was a success without a next reference.
LastPageEnds ==
    /\ pages # <<>>
    /\ pages[Len(pages)].status < 400
    /\ pages[Len(pages)].json
    /\ ~CarriesNext(pages[Len(pages)])

LastPageFailed ==
    /\ pages # <<>>
    /\ pages[Len(pages)].status >= 400 \/ ~pages[Len(pages)].json

\* C14: the fetch has returned exactly when the last response received
\* was a success without a next reference, and has raised only on a failed
\* response; against a finite cursor chain it eventually returns or
\* raises; against an upstream whose every page carries a next reference
\* it never returns, and unless a response fails it goes on issuing
\* requests, as many as the model follows (MaxGets).
C14_FetchEndsWithoutNext ==
    /\ [](/\ FetchReturned <=> LastPageEnds
          /\ pc = "failed" => LastPageFailed
          /\ chain = "endless" => ~FetchReturned
          /\ Len(requests) = Len(pages))
    /\ (chain = "finite") ~> (FetchReturned \/ pc = "failed")
    /\ (chain = "endless") ~> (Len(requests) = MaxGets \/ pc = "failed")

C14_Witness ==
    /\ chain = "endless"
    /\ pc = "fetch"
    /\ Len(requests) = MaxGets
    /\ \A k \in 1..Len(pages) : CarriesNext(pages[k])
    /\ Len(rows) = 500 * MaxGets

\* The constructed query: the credential, the level, the queried window
\* as time range, a list of fields, the platform breakdown and the limit.
ConstructedQuery(ps) ==
    /\ Get(ps, "access_token") = env["META_ACCESS_TOKEN"]
    /\ Get(ps, "level") = StrV(<<"campaign">>)
    /\ Get(ps, "time_range") = time_range(window)
    /\ Truthy(Get(ps, "fields"))
    /\ Get(ps, "breakdowns") = StrV(<<"publisher_platform">>)
    /\ Get(ps, "limit") = IntV(5000)

\* C15: the first GET of a fetch targets the account's insights endpoint
\* and carries the constructed query; every later GET targets the next
\* reference of the response just before it and carries no parameters.
C15_OnlyFirstGetCarriesParams ==
    \A k \in 1..Len(requests) :
        IF k = 1
        THEN /\ requests[1].url = base_url(env)
             /\ ConstructedQuery(requests[1].params)
        ELSE /\ CarriesNext(pages[k - 1])
             /\ requests[k].url = pages[k - 1].next.s
             /\ requests[k].params = <<>>

C15_Witness ==
    /\ variant = "main"
    /\ pc = "fetched"
    /\ Len(requests) = 3
    /\ requests[1].params # <<>>
    /\ requests[2].url = NextUrl(1)
    /\ requests[3].url = NextUrl(2)
    /\ requests[3].params = <<>>

RequiredMissing == \E k \in 1..Len(RequiredMain) : ~Supplied(env[RequiredMain[k]])

OverrideMalformed ==
    \/ Supplied(env["META_SINCE"]) /\ ~FormatOk(env["META_SINCE"].s)
    \/ Supplied(env["META_UNTIL"]) /\ ~FormatOk(env["META_UNTIL"].s)

\* C16: a run of src/main.py in which a required configuration value is
\* missing or empty, or a supplied date override is malformed, issues no
\* GET and no insert call, and once past its start-up it has failed.
C16_BadConfigStopsBeforeStart ==
    (variant = "main" /\ (RequiredMissing \/ OverrideMalformed)) =>
        /\ requests = <<>>
        /\ calls = <<>>
        /\ pc \in {"config", "window", "failed"}

\* C18: the rows the run has committed to the sink are a prefix of its
\* normalized rows, of a length that is a multiple of 500 or the full row
\* count, in every state, that of a run aborted on a load error included;
\* the normalized rows are in fetch order, page by page.
C18_SinkIsBatchPrefix ==
    /\ Len(sink) <= Len(bq_rows)
    /\ sink = SubSeq(bq_rows, 1, Len(sink))
    /\ Len(sink) % 500 = 0 \/ Len(sink) = Len(bq_rows)
    /\ Normalized =>
          LET fetched == ConcatData(pages)
          IN  /\ Len(bq_rows) = Len(fetched)
              /\ \A k \in 1..Len(fetched) :
                    bq_rows[k].meta_row_json = StrV(json_dumps(fetched[k]))

C18_Witness ==
    /\ pc = "failed"
    /\ Len(pages) = 3
    /\ Len(bq_rows) = 1001
    /\ Len(calls) = 2
    /\ calls[2].errors # 0
    /\ Len(sink) = 500

BothRunsDone == pc = "done" /\ peer.pc = "done"

\* The rows of the sink that carry the ingestion instant ts, in sink order.
RowsLoadedAt(ts) ==
    LET stamp == StrV(isoformat_ts(ts))
        Mine(r) == r.load_timestamp = stamp
    IN  SelectSeq(sink, Mine)

\* C17: no insert call removes or changes a row the sink holds; and when
\* two runs over the same fetched records have both succeeded, however
\* their insert calls were ordered, the sink holds the rows of the one and
\* the rows of the other and nothing else, so that every fetched record is
\* in it twice, once per run.
C17_BothRunsAppend ==
    /\ [](BothRunsDone =>
            /\ Len(sink) = Len(bq_rows) + Len(peer.bq_rows)
            /\ Len(sink) = 2 * Len(rows)
            /\ RowsLoadedAt(load_ts) = bq_rows
            /\ RowsLoadedAt(peer.load_ts) = peer.bq_rows
            /\ \A k \in 1..Len(rows) :
                  /\ bq_rows[k].meta_row_json = StrV(json_dumps(rows[k]))
                  /\ peer.bq_rows[k].meta_row_json = StrV(json_dumps(rows[k])))
    /\ [][Len(sink') >= Len(sink) /\ SubSeq(sink', 1, Len(sink)) = sink]_vars

\* Two runs of 501 rows, their insert calls in turns.
C17_Witness ==
    /\ BothRunsDone
    /\ Len(rows) = 501
    /\ Len(sink) = 1002
    /\ sink[1].load_timestamp # sink[501].load_timestamp
    /\ sink[1].meta_row_json = sink[501].meta_row_json
    /\ sink[1001].load_timestamp = sink[1].load_timestamp
    /\ sink[1002].load_timestamp = sink[501].load_timestamp
    /\ sink[1001].meta_row_json = sink[1002].meta_row_json

====
